---- MODULE Spec2Model ----
(***************************************************************************)
(* Model of apps/demo-app/pages/api/check-signature.ts: the API route that *)
(* checks a session signature and looks for an authz grant on the ledger.  *)
(* One request is followed from entry into handler() to its end.  Every    *)
(* await of the handler is a step boundary; the ledger (accounts, grants)  *)
(* and the reachability of its endpoints are the environment.              *)
(***************************************************************************)
EXTENDS Integers, Sequences, FiniteSets, TLC

VARIABLES
    method,        \* req.method
    query,         \* req.query: the four parameters
    accounts,      \* ledger: address -> "none" | "nokey" | "key"
    ledger,        \* ledger: the authz grant registry, a set of <<granter, grantee>>
    pc,            \* position of handler()
    statusCode,    \* res.statusCode, 0 while unset
    errors,        \* the errors list of the JSON body sent
    valid,         \* the valid field of the JSON body sent: "unset" | "true" | "false"
    allow,         \* the Allow header
    text,          \* the body passed to res.end()
    sent,          \* number of responses the handler has sent
    threw,         \* the handler's promise rejected
    account,       \* result of client.getAccount: "unread" | "none" | "nokey" | "key"
    isValid,       \* result of checkSignature: "unset" | "true" | "false"
    resp,          \* the decoded body of the grants listing, in checkGrants
    trace,         \* the stages of the flow entered so far, in order
    contacts,      \* the ledger round trips made so far, in order
    pagesFetched   \* pages of the grants listing fetched

vars == <<method, query, accounts, ledger, pc, statusCode, errors, valid, allow,
          text, sent, threw, account, isValid, resp, trace, contacts, pagesFetched>>

----------------------------------------------------------------------------
(* Bounds *)

\* the ledger holds at most this many grants
MaxGrants == 2
\* the grants listing returns at most this many grants per page
PageLimit == 1

----------------------------------------------------------------------------
(* Values *)

\* addresses, in the order the ledger lists them
AddrSeq == <<"A", "B", "Z">>
Addr == {AddrSeq[i] : i \in 1..Len(AddrSeq)}

\* a query value of NextApiRequest: string | string[] | undefined
Undefined == [t |-> "undefined", v |-> ""]
Array == [t |-> "array", v |-> ""]
Str(s) == [t |-> "string", v |-> s]

Methods == {"GET", "POST"}
SessionValues == {Undefined, Array, Str(""), Str("A"), Str("B")}
MetaValues == {Undefined, Array, Str(""), Str("A"), Str("B")}
MessageValues == {Undefined, Array, Str(""), Str("6869")}
SignatureValues == {Undefined, Array, Str(""), Str("c2lnQQ=="), Str("AAAA")}

Fields == <<"userSessionAddress", "metaAccountAddress", "message", "signature">>

\* JavaScript's !x for a query value: undefined and "" are falsy, an array is truthy
Falsy(x) == x.t = "undefined" \/ (x.t = "string" /\ x.v = "")

isString(test) == test.t = "string"

----------------------------------------------------------------------------
(* Validation, lines 97-144 *)

PresenceMessage(f) ==
    CASE f = "userSessionAddress" -> "userSessionAddress is required"
      [] f = "metaAccountAddress" -> "itemId is required"
      [] f = "message" -> "message is required"
      [] f = "signature" -> "signature is required"

TypeMessage(f) ==
    CASE f = "userSessionAddress" -> "userSessionAddress is required to be a string"
      [] f = "metaAccountAddress" -> "metaAccountAddress is required to be a string"
      [] f = "message" -> "message is required to be a string"
      [] f = "signature" -> "signature is required to be a string"

\* the condition of each if of the presence pass
PresenceFailsMutant(q, f) ==
    IF f = "userSessionAddress" THEN q[f].t = "undefined"
    ELSE Falsy(q[f]) /\ q[f].t = "string"

PresenceFails(q, f) ==
    IF f = "userSessionAddress" THEN Falsy(q[f])
    ELSE Falsy(q[f]) /\ q[f].t = "string"

\* errors after the presence pass: every failing check pushes, in source order
PresenceErrors(q) ==
    LET failing == SelectSeq(Fields, LAMBDA f : PresenceFails(q, f))
    IN  [i \in 1..Len(failing) |-> PresenceMessage(failing[i])]

\* the type pass fails for field f
TypeFailsMutant(q, f) == f # "metaAccountAddress" /\ ~isString(q[f])

TypeFails(q, f) == ~isString(q[f])

\* the type pass returns at the first field that is not a string
TypeErrors(q) ==
    LET failing == SelectSeq(Fields, LAMBDA f : TypeFails(q, f))
    IN  IF failing = <<>> THEN <<>> ELSE <<TypeMessage(failing[1])>>

----------------------------------------------------------------------------
(* Account resolution, lines 153-166 *)

AccountErrorsMutant(acc) ==
    CASE acc = "none" -> <<"account not found">>
      [] acc = "nokey" -> <<"account not found">>
      [] OTHER -> <<>>

AccountErrors(acc) ==
    CASE acc = "none" -> <<"account not found">>
      [] acc = "nokey" -> <<"public key not found">>
      [] OTHER -> <<>>

\* what the ledger's account store holds for an address
AccountOf(a) == IF a \in DOMAIN accounts THEN accounts[a] ELSE "none"

\* the base64 public key the ledger stores for an address that has one
PubkeyOf(a) ==
    CASE a = "A" -> "cGtB"
      [] a = "B" -> "cGtC"
      [] OTHER -> "cGta"

----------------------------------------------------------------------------
(* checkSignature, lines 61-84 *)

\* Buffer.from(messageString, "hex").toString()
HexDecode(s) == IF s = "6869" THEN "hi" ELSE ""

\* Buffer.from(pubKey, "base64"): the key bytes, named by the address they hash to
KeyDecode(s) ==
    CASE s = "cGtB" -> "A"
      [] s = "cGtC" -> "B"
      [] s = "cGta" -> "Z"
      [] OTHER -> ""

\* the ADR-36 sign doc of a signer and a payload
SignDoc(signer, data) == [signer |-> signer, data |-> data]

\* Buffer.from(signature, "base64"): the key that signed and the document signed.
\* "c2lnQQ==" is the signature of A's key over SignDoc("A", "hi").
SigDecode(s) ==
    IF s = "c2lnQQ==" THEN [key |-> "A", doc |-> SignDoc("A", "hi")]
    ELSE [key |-> "", doc |-> SignDoc("", "")]

checkSignature(address, pubKey, messageString, signature) ==
    LET msg == HexDecode(messageString)
        sig == SigDecode(signature)
        key == KeyDecode(pubKey)
    IN  /\ key = address
        /\ sig.key = key
        /\ sig.doc = SignDoc(address, msg)

----------------------------------------------------------------------------
(* checkGrants, lines 50-59, and the ledger's listing endpoint *)

\* the address placed in the path of /cosmos/authz/v1beta1/grants/grantee/{..}
GrantsPathAddress(granter, grantee) == granter

\* the grants whose grantee is the address in the path, in ledger order
Listing(a) ==
    LET from == SelectSeq(AddrSeq, LAMBDA x : <<x, a>> \in ledger)
    IN  [i \in 1..Len(from) |-> [granter |-> from[i], grantee |-> a]]

NumPages(a) ==
    IF Len(Listing(a)) = 0 THEN 1
    ELSE (Len(Listing(a)) + PageLimit - 1) \div PageLimit

\* page n (from 1) of the listing
Page(a, n) ==
    LET l == Listing(a)
        lo == (n - 1) * PageLimit + 1
        hi == IF n * PageLimit < Len(l) THEN n * PageLimit ELSE Len(l)
    IN  [kind |-> "page",
         grants |-> SubSeq(l, lo, hi),
         next_key |-> IF hi < Len(l) THEN "next" ELSE "null"]

\* a decoded body without a grants list (an error body of the endpoint)
NoGrantsBody == [kind |-> "nogrants", grants |-> <<>>, next_key |-> "null"]
NoResponse == [kind |-> "none", grants |-> <<>>, next_key |-> "null"]

\* data.grants.map((grant) => grant.grantee).includes(grantee)
GrantsMatch(grants, grantee) ==
    \E i \in 1..Len(grants) : grants[i].grantee = grantee

----------------------------------------------------------------------------
(* The request and the ledger it meets *)

Init ==
    /\ method \in Methods
    /\ query \in [userSessionAddress : SessionValues,
                  metaAccountAddress : MetaValues,
                  message : MessageValues,
                  signature : SignatureValues]
    /\ accounts \in [{"A", "B"} -> {"none", "nokey", "key"}]
    /\ ledger \in {g \in SUBSET (Addr \X Addr) : Cardinality(g) <= MaxGrants}
    /\ pc = "connect"
    /\ statusCode = 0
    /\ errors = <<>>
    /\ valid = "unset"
    /\ allow = <<>>
    /\ text = <<>>
    /\ sent = 0
    /\ threw = FALSE
    /\ account = "unread"
    /\ isValid = "unset"
    /\ resp = NoResponse
    /\ trace = <<>>
    /\ contacts = <<>>
    /\ pagesFetched = 0

\* the handler's promise rejects: nothing more of it runs
Throw ==
    /\ pc' = "done"
    /\ threw' = TRUE

\* res.status(code).json({ errors }); return
SendErrors(code, errs) ==
    /\ statusCode' = code
    /\ errors' = errs
    /\ sent' = sent + 1
    /\ pc' = "done"

\* line 91: await CosmWasmClient.connect(testnetChainInfo.rpc)
Connect ==
    /\ pc = "connect"
    /\ contacts' = Append(contacts, "connect")
    /\ \E ok \in BOOLEAN :
          IF ok THEN pc' = "dispatch" /\ threw' = threw
          ELSE Throw
    /\ UNCHANGED <<method, query, accounts, ledger, statusCode, errors, valid,
                   allow, text, sent, account, isValid, resp, trace, pagesFetched>>

\* lines 185-188: the else branch of method === "GET"
MethodNotAllowed ==
    /\ pc = "dispatch"
    /\ method # "GET"
    /\ allow' = <<"GET">>
    /\ statusCode' = 405
    /\ text' = <<"Method", method, "Not Allowed">>
    /\ sent' = sent + 1
    /\ pc' = "done"
    /\ UNCHANGED <<method, query, accounts, ledger, errors, valid, threw,
                   account, isValid, resp, trace, contacts, pagesFetched>>

\* lines 93-144: the presence pass, then the type pass
Validate ==
    /\ pc = "dispatch"
    /\ method = "GET"
    /\ trace' = Append(trace, "Validating")
    /\ IF Len(PresenceErrors(query)) > 0
         THEN SendErrors(400, PresenceErrors(query))
       ELSE IF TypeErrors(query) # <<>>
         THEN SendErrors(400, TypeErrors(query))
       ELSE /\ pc' = "resolve"
            /\ UNCHANGED <<statusCode, errors, sent>>
    /\ UNCHANGED <<method, query, accounts, ledger, valid, allow, text, threw,
                   account, isValid, resp, contacts, pagesFetched>>

\* lines 153-166: await client.getAccount(userSessionAddress)
GetAccount ==
    /\ pc = "resolve"
    /\ trace' = Append(trace, "Resolving")
    /\ contacts' = Append(contacts, "getAccount")
    /\ \E ok \in BOOLEAN :
          IF ~ok
            THEN /\ Throw
                 /\ UNCHANGED <<account, statusCode, errors, sent>>
          ELSE /\ account' = AccountOf(query.userSessionAddress.v)
               /\ threw' = threw
               /\ IF AccountErrors(account') # <<>>
                    THEN SendErrors(404, AccountErrors(account'))
                  ELSE /\ pc' = "verify"
                       /\ UNCHANGED <<statusCode, errors, sent>>
    /\ UNCHANGED <<method, query, accounts, ledger, valid, allow, text,
                   isValid, resp, pagesFetched>>

\* lines 168-179: checkSignature and the invalid signature response
VerifySignature ==
    /\ pc = "verify"
    /\ trace' = Append(trace, "Verifying")
    /\ LET ok == checkSignature(query.userSessionAddress.v,
                                PubkeyOf(query.userSessionAddress.v),
                                query.message.v, query.signature.v)
       IN  IF ok
             THEN /\ isValid' = "true"
                  /\ pc' = "query"
                  /\ UNCHANGED <<statusCode, errors, sent>>
           ELSE /\ isValid' = "false"
                /\ SendErrors(400, <<"invalid signature">>)
    /\ UNCHANGED <<method, query, accounts, ledger, valid, allow, text, threw,
                   account, resp, contacts, pagesFetched>>

\* line 182, res.status(200), then lines 51-57 of checkGrants: the fetch of
\* the listing and res.json().  The fetch or the decoding may fail; a body
\* that decodes may lack the grants list.
FetchGrants ==
    /\ pc = "query"
    /\ trace' = Append(trace, "Querying")
    /\ contacts' = Append(contacts, "grants")
    /\ statusCode' = 200
    /\ \E outcome \in {"page", "nogrants", "failed"} :
          CASE outcome = "failed" ->
                 /\ Throw
                 /\ UNCHANGED <<resp, pagesFetched>>
            [] outcome = "nogrants" ->
                 /\ resp' = NoGrantsBody
                 /\ pagesFetched' = pagesFetched + 1
                 /\ pc' = "match"
                 /\ threw' = threw
            [] outcome = "page" ->
                 /\ resp' = Page(GrantsPathAddress(query.metaAccountAddress.v,
                                                   query.userSessionAddress.v), 1)
                 /\ pagesFetched' = pagesFetched + 1
                 /\ pc' = "match"
                 /\ threw' = threw
    /\ UNCHANGED <<method, query, accounts, ledger, errors, valid, allow, text,
                   sent, account, isValid>>

\* line 58 of checkGrants and lines 182-184: the match and the 200 response.
\* data.grants.map throws a TypeError when the body has no grants list.
MatchGrants ==
    /\ pc = "match"
    /\ trace' = Append(trace, "Matching")
    /\ IF resp.kind = "nogrants"
         THEN /\ Throw
              /\ UNCHANGED <<valid, sent>>
       ELSE /\ valid' = IF GrantsMatch(resp.grants, query.userSessionAddress.v)
                          THEN "true" ELSE "false"
            /\ sent' = sent + 1
            /\ pc' = "done"
            /\ threw' = threw
    /\ UNCHANGED <<method, query, accounts, ledger, statusCode, errors, allow,
                   text, account, isValid, resp, contacts, pagesFetched>>

Next ==
    \/ Connect
    \/ MethodNotAllowed
    \/ Validate
    \/ GetAccount
    \/ VerifySignature
    \/ FetchGrants
    \/ MatchGrants

Spec == Init /\ [][Next]_vars

----------------------------------------------------------------------------
(* Properties *)

usa == query.userSessionAddress
meta == query.metaAccountAddress

NonEmptyString(x) == x.t = "string" /\ x.v # ""
Absent(x) == x.t = "undefined"
FieldSet == {Fields[i] : i \in 1..Len(Fields)}

\* validation has run on this request
Validated == Len(trace) >= 1
\* validation has run and let the request through
PassedValidation == Len(trace) >= 2 \/ (Len(trace) = 1 /\ pc = "resolve")

\* an error message that names parameter f
Mentions(e, f) ==
    CASE f = "userSessionAddress" ->
           e \in {"userSessionAddress is required",
                  "userSessionAddress is required to be a string"}
      [] f = "metaAccountAddress" ->
           e \in {"metaAccountAddress is required",
                  "metaAccountAddress is required to be a string"}
      [] f = "message" ->
           e \in {"message is required", "message is required to be a string"}
      [] f = "signature" ->
           e \in {"signature is required", "signature is required to be a string"}

ErrorsMention(f) == \E i \in 1..Len(errors) : Mentions(errors[i], f)

\* C1: a GET request with four valid strings, an account with a public key,
\* a signature that verifies and a ledger grant from metaAccountAddress to a
\* different userSessionAddress ends in 200 with valid = true.
C1_ExistingGrantIsValid ==
    ( /\ pc = "done"
      /\ method = "GET"
      /\ \A f \in FieldSet : NonEmptyString(query[f])
      /\ account = "key"
      /\ isValid = "true"
      /\ resp.kind = "page"
      /\ ~threw
      /\ meta.v # usa.v
      /\ <<meta.v, usa.v>> \in ledger )
    => (statusCode = 200 /\ valid = "true" /\ sent = 1)

\* C2: the handler answers valid = true only if the ledger holds a grant
\* whose granter is metaAccountAddress and whose grantee is userSessionAddress.
C2_ValidOnlyWithGrant ==
    valid = "true" => <<meta.v, usa.v>> \in ledger

\* C3: every request whose method is not GET ends with 405 and Allow: GET,
\* whatever the query and whatever the ledger endpoint does.
C3_NonGetIs405 ==
    (pc = "done" /\ method # "GET")
    => ( /\ statusCode = 405
         /\ allow = <<"GET">>
         /\ sent = 1
         /\ errors = <<>>
         /\ valid = "unset" )

\* C4 as stated: a parameter that is omitted or an array gives 400 with an
\* error naming that parameter, whatever the other three are.
C4_MissingOrArrayNamed ==
    Validated =>
      \A f \in FieldSet :
         (query[f].t \in {"undefined", "array"})
         => (statusCode = 400 /\ ErrorsMention(f))

\* C4 as amended: a parameter that is omitted or an array gives 400, and the
\* error list names that parameter when the other three are non-empty strings.
C4_MissingOrArrayNamedWhenOthersValid ==
    Validated =>
      \A f \in FieldSet :
         (query[f].t \in {"undefined", "array"})
         => /\ statusCode = 400
            /\ pc = "done"
            /\ (\A g \in FieldSet \ {f} : NonEmptyString(query[g]))
                  => ErrorsMention(f)

C4_Witness ==
    /\ Validated
    /\ meta = Array
    /\ \A g \in FieldSet \ {"metaAccountAddress"} : NonEmptyString(query[g])
    /\ statusCode = 400
    /\ errors = <<"metaAccountAddress is required to be a string">>

\* C5: for every set S of absent parameters the 400 response holds one
\* presence error for each parameter of S, in the order of Fields.
C5_AllAbsentCollected ==
    LET missing == SelectSeq(Fields, LAMBDA f : Absent(query[f]))
        expected == [i \in 1..Len(missing) |-> PresenceMessage(missing[i])]
        reported == SelectSeq(errors,
                       LAMBDA e : \E i \in 1..Len(expected) : expected[i] = e)
    IN  (Validated /\ missing # <<>>)
        => (statusCode = 400 /\ reported = expected)

\* C6: once validation, resolution and verification passed, an empty or
\* malformed grants response ends the request in 200 with valid = false,
\* never in an exception.
C6_EmptyOrMalformedIsFalse ==
    ( /\ pc = "done"
      /\ resp.kind \in {"page", "nogrants"}
      /\ (resp.kind = "nogrants" \/ resp.grants = <<>>) )
    => (statusCode = 200 /\ valid = "false" /\ sent = 1 /\ ~threw)

\* C7: matching runs over all pages of the listing: a match on any page
\* gives valid = true, and valid = false is sent only after every page
\* has been fetched.
C7_AllPagesExamined ==
    LET path == GrantsPathAddress(meta.v, usa.v)
    IN  (pc = "done" /\ valid # "unset")
        => /\ (\E n \in 1..NumPages(path) :
                  GrantsMatch(Page(path, n).grants, usa.v)) => valid = "true"
           /\ valid = "false" => pagesFetched = NumPages(path)

\* C8: after validation, an address without an account gives 404 "account
\* not found" and an account without a public key gives 404 "public key not
\* found", with no signature verification and no grant query.
C8_AccountOutcomes ==
    (PassedValidation /\ account # "unread")
    => LET held == AccountOf(usa.v)
           stopped == /\ pc = "done"
                      /\ statusCode = 404
                      /\ sent = 1
                      /\ isValid = "unset"
                      /\ trace = <<"Validating", "Resolving">>
                      /\ contacts = <<"connect", "getAccount">>
                      /\ pagesFetched = 0
       IN  /\ held = "none" => (stopped /\ errors = <<"account not found">>)
           /\ held = "nokey" => (stopped /\ errors = <<"public key not found">>)
           /\ held = "key" => statusCode # 404

C8_Witness ==
    /\ pc = "done"
    /\ AccountOf(usa.v) = "nokey"
    /\ account = "nokey"
    /\ statusCode = 404
    /\ errors = <<"public key not found">>
    /\ query.signature = Str("c2lnQQ==")
    /\ query.message = Str("6869")

Stages == <<"Validating", "Resolving", "Verifying", "Querying", "Matching">>

\* C9: the stages are entered in order, each at most once and only after the
\* earlier ones succeeded; exactly one response is sent; the ledger is not
\* contacted before validation succeeded, the grants are queried only after
\* a valid signature, and a failing read ends the request.
C9_LinearFlow ==
    /\ Len(trace) <= Len(Stages)
    /\ trace = SubSeq(Stages, 1, Len(trace))
    /\ sent <= 1
    /\ pc = "done" => sent = 1
    /\ contacts # <<>> => PassedValidation
    /\ (\E i \in 1..Len(contacts) : contacts[i] = "grants") => isValid = "true"
    /\ isValid = "false"
         => /\ pc = "done"
            /\ statusCode = 400
            /\ errors = <<"invalid signature">>
            /\ \A i \in 1..Len(contacts) : contacts[i] # "grants"
    /\ threw => pc = "done"

\* C10: validation of a GET request either sends 400 with a non-empty error
\* list or continues to account resolution with four non-empty strings; a
\* failure of the type pass reports only the first failing field's error.
C10_ValidationOutcomes ==
    LET typePassReached ==
            /\ ~Falsy(usa)
            /\ \A f \in FieldSet \ {"userSessionAddress"} : query[f] # Str("")
        nonStrings == SelectSeq(Fields, LAMBDA f : query[f].t # "string")
    IN  trace = <<"Validating">>
        => /\ \/ /\ pc = "done"
                 /\ statusCode = 400
                 /\ errors # <<>>
                 /\ sent = 1
              \/ /\ pc = "resolve"
                 /\ statusCode = 0
                 /\ sent = 0
                 /\ errors = <<>>
                 /\ \A f \in FieldSet : NonEmptyString(query[f])
           /\ (typePassReached /\ nonStrings # <<>>)
                 => errors = <<TypeMessage(nonStrings[1])>>

C10_Witness ==
    /\ trace = <<"Validating">>
    /\ usa = Str("A")
    /\ meta = Undefined
    /\ query.message = Array
    /\ statusCode = 400
    /\ errors = <<"metaAccountAddress is required to be a string">>

====
